---- MODULE Spec2Model ----
(***************************************************************************)
(* Model of wasm-ic's lowering of one WebAssembly function body to a flat  *)
(* byte stream plus a branch table (src/src/lib.rs).                       *)
(*                                                                         *)
(*   collect_instructions  : the scanner, one record per decoded operator  *)
(*   compute_branch_table  : pass 1 (block_end_map) and pass 2 (entries)   *)
(*   extract_function_body : the first function's operator bytes           *)
(***************************************************************************)
EXTENDS Integers, Sequences, FiniteSets, TLC

\* ------------------------------------------------------------------------
\* Bounds of the model
\* ------------------------------------------------------------------------
MaxInstrs == 4

\* Longest well-formed body whose flat and nested executions are compared
MaxRunInstrs == 6

\* Longest function body (locals and operators) and most payloads of a module
MaxBody == 5
MaxPayloads == 2

\* Relative depths a br / br_if can carry
Depths == {0, 1}

\* Option::None for an offset
None == -1

\* Encoded widths, in bytes.  A block-open instruction is its opcode plus a
\* block type, which is one byte (0x40, a value type) or a multi-byte s33
\* type index; an opaque instruction is an opcode with or without operands.
BlockWidths == {2, 3}
OtherWidths == {1, 2}

VARIABLES
    pc,                 \* position in compute_branch_table
    instrs,             \* Vec<InstrRecord>
    i,                  \* loop index of the running pass (1-based)
    block_end_map,      \* Vec<Option<usize>>, by instruction index
    end_resolve_stack,  \* Vec<usize> of pass 1
    stack,              \* Vec<(usize, BlockInfo)> of pass 2
    entries,            \* Vec<BranchEntry>
    ret,                \* the value compute_branch_table returns
    run,                \* the two executions of the lowered body
    fpc,                \* PC of the flat machine
    nidx,               \* instruction the nested program stands at
    labels,             \* blocks the nested program is inside of
    xpc,                \* position in extract_function_body
    wasm,               \* the payloads parse_all yields for the module
    p,                  \* payload the loop stands at (1-based)
    xret,               \* the value extract_function_body returns
    hpc,                \* position in write_prog_hex
    hbytes,             \* bytes: &[u8]
    out,                \* the String being built, one character per element
    hi,                 \* index of the enumerate loop (0-based)
    file,               \* content of the file at path
    hist,               \* the invocations of compute_branch_table so far
    input               \* the byte stream of a repeated invocation, as scanned

lowerVars == <<pc, instrs, i, block_end_map, end_resolve_stack, stack, entries, ret>>

runVars == <<run, fpc, nidx, labels>>

extVars == <<xpc, wasm, p, xret>>

hexVars == <<hpc, hbytes, out, hi, file>>

callVars == <<hist, input>>

vars == <<lowerVars, runVars, extVars, hexVars, callVars>>

\* ------------------------------------------------------------------------
\* Helpers
\* ------------------------------------------------------------------------
Last(s) == s[Len(s)]

Front(s) == SubSeq(s, 1, Len(s) - 1)

\* IsOpen with opaque instructions falling into the block-open arm.
IsOpen_WithOther(kind) == kind \in {"Block", "Loop", "If", "Other"}

IsOpen(kind) == kind \in {"Block", "Loop", "If"}

IsBranch(kind) == kind \in {"Br", "BrIf"}

\* The operators a byte stream can hold next: kind, relative depth, width.
Operators ==
    [kind : {"Block", "Loop", "If"}, depth : {0}, width : BlockWidths]
    \cup [kind : {"Else", "End"}, depth : {0}, width : {1}]
    \cup [kind : {"Br", "BrIf"}, depth : Depths, width : {2}]
    \cup [kind : {"Other"}, depth : {0}, width : OtherWidths]

\* Offset the reader stands at after the records of s.
NextOffset(s) == IF s = <<>> THEN 0 ELSE Last(s).offset + Last(s).width

InstrRecord(op, offset) ==
    [kind |-> op.kind, depth |-> op.depth, width |-> op.width, offset |-> offset]

NoRet == [tag |-> "None", kind |-> "", offset |-> None, table |-> <<>>]

\* Ok that hands the table back sorted by source_pc.
Ok_Sorted(table) ==
    [tag |-> "Ok", kind |-> "", offset |-> None,
     table |-> SortSeq(table, LAMBDA a, b : a.source_pc < b.source_pc)]

Ok(table) == [tag |-> "Ok", kind |-> "", offset |-> None, table |-> table]

Err(kind, offset) == [tag |-> "Err", kind |-> kind, offset |-> offset, table |-> <<>>]

\* ------------------------------------------------------------------------
\* Pass 1, per instruction
\* ------------------------------------------------------------------------
\* EndResolve with an End of no open block recorded for the first instruction.
EndResolve_Default(rstack, map, instr) ==
    IF rstack # <<>>
    THEN [stack |-> Front(rstack), map |-> [map EXCEPT ![Last(rstack)] = instr.offset]]
    ELSE [stack |-> rstack, map |-> [map EXCEPT ![1] = instr.offset]]

\* EndResolve that closes the outermost open block instead of the innermost.
EndResolve_Outermost(rstack, map, instr) ==
    IF rstack # <<>>
    THEN [stack |-> Tail(rstack), map |-> [map EXCEPT ![Head(rstack)] = instr.offset]]
    ELSE [stack |-> rstack, map |-> map]

\* EndResolve that pops the block and records nothing for it.
EndResolve_NoRecord(rstack, map, instr) ==
    IF rstack # <<>>
    THEN [stack |-> Front(rstack), map |-> map]
    ELSE [stack |-> rstack, map |-> map]

\* InstrKind::End in pass 1: the index stack and the end-offset map after it.
EndResolve(rstack, map, instr) ==
    IF rstack # <<>>
    THEN [stack |-> Front(rstack), map |-> [map EXCEPT ![Last(rstack)] = instr.offset]]
    ELSE [stack |-> rstack, map |-> map]

\* ------------------------------------------------------------------------
\* Pass 2, per instruction
\* ------------------------------------------------------------------------
\* The `as u32` casts keep every offset below 2^32, which all offsets of the
\* bounded streams here are.
BranchEntry(source_pc, target_pc) ==
    [source_pc |-> source_pc, target_pc |-> target_pc]

BlockInfo(k, instr) ==
    [idx |-> k, kind |-> instr.kind, start_offset |-> instr.offset,
     body_offset |-> instr.offset + 2, else_offset |-> None]

\* ElseStack without the test of the innermost scope's kind.
ElseStack_AnyScope(stk, instr) ==
    IF stk # <<>>
    THEN Append(Front(stk), [Last(stk) EXCEPT !.else_offset = instr.offset])
    ELSE stk

\* InstrKind::Else: the new stack and the entries appended.
ElseStack(stk, instr) ==
    IF stk # <<>> /\ Last(stk).kind = "If"
    THEN Append(Front(stk), [Last(stk) EXCEPT !.else_offset = instr.offset])
    ELSE stk

ElseEntries(stk, instr) ==
    IF stk # <<>> /\ Last(stk).kind = "If"
    THEN <<BranchEntry(Last(stk).start_offset, instr.offset + 1)>>
    ELSE <<>>

\* EndEntries that ignores a recorded else_offset.
EndEntries_IgnoreElse(info, end_offset) ==
    IF info.kind = "If"
    THEN <<BranchEntry(info.start_offset, end_offset + 1)>>
    ELSE <<>>

\* EndEntries that emits an entry for every popped scope but a Block.
EndEntries_LoopToo(info, end_offset) ==
    IF info.kind # "Block"
    THEN IF info.else_offset # None
         THEN <<BranchEntry(info.else_offset, end_offset + 1)>>
         ELSE <<BranchEntry(info.start_offset, end_offset + 1)>>
    ELSE <<>>

\* EndEntries that emits the If's own entry at the End as well.
EndEntries_Both(info, end_offset) ==
    IF info.kind = "If"
    THEN IF info.else_offset # None
         THEN <<BranchEntry(info.else_offset, end_offset + 1),
                BranchEntry(info.start_offset, end_offset + 1)>>
         ELSE <<BranchEntry(info.start_offset, end_offset + 1)>>
    ELSE <<>>

\* InstrKind::End: the entries appended for the popped scope.
EndEntries(info, end_offset) ==
    IF info.kind = "If"
    THEN IF info.else_offset # None
         THEN <<BranchEntry(info.else_offset, end_offset + 1)>>
         ELSE <<BranchEntry(info.start_offset, end_offset + 1)>>
    ELSE <<>>

\* TargetIdx with saturating_sub: too deep a branch is clamped to the
\* outermost scope.
TargetIdx_Clamped(len, depth) ==
    IF len >= 1 + depth THEN len - (1 + depth) ELSE IF len > 0 THEN 0 ELSE None

\* stack.len().checked_sub(1 + depth): a 0-based index, or None.
TargetIdx(len, depth) == IF len >= 1 + depth THEN len - (1 + depth) ELSE None

\* TargetPc that jumps onto the End instead of past it.
TargetPc_OntoEnd(info, end_map) ==
    IF info.kind = "Loop"
    THEN info.body_offset
    ELSE IF end_map[info.idx] = None THEN None ELSE end_map[info.idx]

\* TargetPc that looks up the end of a Loop too before branching to its body.
TargetPc_LoopNeedsEnd(info, end_map) ==
    IF end_map[info.idx] = None
    THEN None
    ELSE IF info.kind = "Loop" THEN info.body_offset ELSE end_map[info.idx] + 1

\* TargetPc that treats a Loop like a Block.
TargetPc_LoopAsBlock(info, end_map) ==
    IF end_map[info.idx] = None THEN None ELSE end_map[info.idx] + 1

\* The target of a branch to the scope info; None when the end is unresolved.
TargetPc(info, end_map) ==
    IF info.kind = "Loop"
    THEN info.body_offset
    ELSE IF end_map[info.idx] = None THEN None ELSE end_map[info.idx] + 1

\* InstrKind::Other => {}
OtherEntries(instr) == <<>>

\* The error of a failed lowering.
DepthExceededErr(instr) == Err("DepthExceeded", instr.offset)

\* UnresolvedEndErr that reports the branch instead of the block.
UnresolvedEndErr_AtBranch(instr, info) == Err("UnresolvedEnd", instr.offset)

UnresolvedEndErr(instr, info) == Err("UnresolvedEnd", info.start_offset)

\* Propagate that stops the scan and returns what was collected so far.
Propagate_Partial(err, partial) == Ok(partial)

\* `?` on an Err: the function returns the error, its locals are dropped.
Propagate(err, partial) == err

\* ------------------------------------------------------------------------
\* The nesting structure of an instruction sequence, read off the sequence
\* ------------------------------------------------------------------------
OpensScope(kind) == kind \in {"Block", "Loop", "If"}

\* Nesting depth, relative to the block opened at k, just before index j.
NestBefore(s, k, j) ==
    Cardinality({m \in (k + 1)..(j - 1) : OpensScope(s[m].kind)})
    - Cardinality({m \in (k + 1)..(j - 1) : s[m].kind = "End"})

SetMin(S) == CHOOSE x \in S : \A y \in S : x <= y

\* Index of the End that closes the block opened at k; 0 if it is never closed.
MatchEnd(s, k) ==
    LET c == {j \in (k + 1)..Len(s) : s[j].kind = "End" /\ NestBefore(s, k, j) = 0}
    IN IF c = {} THEN 0 ELSE SetMin(c)

\* Index of the Else of the If opened at k; 0 if it has none.
MatchElse(s, k) ==
    LET e == IF MatchEnd(s, k) = 0 THEN Len(s) + 1 ELSE MatchEnd(s, k)
        c == {j \in (k + 1)..(e - 1) : s[j].kind = "Else" /\ NestBefore(s, k, j) = 0}
    IN IF c = {} THEN 0 ELSE SetMin(c)

\* Block that an End or an Else at index j belongs to; 0 if there is none.
OwnerOf(s, j) ==
    LET c == {k \in 1..(j - 1) : OpensScope(s[k].kind) /\ NestBefore(s, k, j) = 0
                                 /\ \A m \in (k + 1)..(j - 1) :
                                       s[m].kind = "End" => NestBefore(s, k, m) > 0}
    IN IF c = {} THEN 0 ELSE CHOOSE k \in c : \A y \in c : y <= k

\* Balanced block/loop/if/else/end: every End closes a block, every block is
\* closed, every Else belongs to an If and is that If's only Else.
WellFormed(s) ==
    /\ \A k \in 1..Len(s) : OpensScope(s[k].kind) => MatchEnd(s, k) # 0
    /\ \A j \in 1..Len(s) : s[j].kind = "End" => OwnerOf(s, j) # 0
    /\ \A j \in 1..Len(s) :
          s[j].kind = "Else" =>
             /\ OwnerOf(s, j) # 0
             /\ s[OwnerOf(s, j)].kind = "If"
             /\ MatchElse(s, OwnerOf(s, j)) = j
             /\ \A m \in (j + 1)..(MatchEnd(s, OwnerOf(s, j)) - 1) :
                   ~(s[m].kind = "Else" /\ NestBefore(s, OwnerOf(s, j), m) = 0)

\* ------------------------------------------------------------------------
\* extract_function_body
\* ------------------------------------------------------------------------
OpEnd == 11

OpReturn == 15

ValTypeI32 == 127

\* Bytes a function body is made of: 0x00, 0x01, end, i32.
ByteVals == {0, 1, OpEnd, ValTypeI32}

\* Complete bodies of the function entries after the first one.
LaterBodies == {<<0, OpEnd>>, <<1, 1, ValTypeI32, 1, OpEnd>>}

NoBytes == [tag |-> "None", kind |-> "", bytes |-> <<>>]

OkBytes(bytes) == [tag |-> "Ok", kind |-> "", bytes |-> bytes]

ErrBytes(kind) == [tag |-> "Err", kind |-> kind, bytes |-> <<>>]

\* get_operators_reader: the number of bytes of the locals declarations (a
\* count, then that many pairs of a count and a value type), None when they
\* do not decode.
OpsStart(all_bytes) ==
    IF all_bytes = <<>> THEN None
    ELSE LET c == all_bytes[1] IN
         IF /\ 1 + 2 * c <= Len(all_bytes)
            /\ \A j \in 1..c : all_bytes[2 * j + 1] = ValTypeI32
         THEN 1 + 2 * c
         ELSE None

\* RewriteLast that rewrites every end opcode of the stream.
RewriteLast_Every(bytes) ==
    [j \in 1..Len(bytes) |-> IF bytes[j] = OpEnd THEN OpReturn ELSE bytes[j]]

\* if let Some(last) = bytes.last_mut() { if *last == 0x0B { *last = 0x0F } }
RewriteLast(bytes) ==
    IF bytes # <<>> /\ bytes[Len(bytes)] = OpEnd
    THEN [bytes EXCEPT ![Len(bytes)] = OpReturn]
    ELSE bytes

\* The body of the CodeSectionEntry arm.
ExtractEntry(all_bytes) ==
    LET start == OpsStart(all_bytes) IN
    IF start = None
    THEN ErrBytes("Parse")
    ELSE OkBytes(RewriteLast(SubSeq(all_bytes, start + 1, Len(all_bytes))))

\* NoCodeErr that hands back an empty body instead of failing.
NoCodeErr_Empty == OkBytes(<<>>)

\* Err(anyhow!("No code section found in WASM binary"))
NoCodeErr == ErrBytes("NoCodeSection")

HasCode(w) == \E k \in 1..Len(w) : w[k].type = "Code"

\* ------------------------------------------------------------------------
\* Actions
\* ------------------------------------------------------------------------
Init ==
    /\ pc = "collect"
    /\ instrs = <<>>
    /\ i = 1
    /\ block_end_map = <<>>
    /\ end_resolve_stack = <<>>
    /\ stack = <<>>
    /\ entries = <<>>
    /\ ret = NoRet
    /\ run = "idle"
    /\ fpc = 0
    /\ nidx = 1
    /\ labels = <<>>
    /\ xpc = "build"
    /\ wasm = <<>>
    /\ p = 1
    /\ xret = NoBytes
    /\ hpc = "build"
    /\ hbytes = <<>>
    /\ out = <<>>
    /\ hi = 0
    /\ file = <<>>
    /\ hist = <<>>
    /\ input = [instrs |-> <<>>, bad |-> FALSE]

\* collect_instructions: one iteration of `while !reader.eof()`.
CollectInstr ==
    /\ UNCHANGED <<runVars, extVars, hexVars, callVars>>
    /\ pc = "collect"
    /\ Len(instrs) < MaxInstrs
    /\ \E op \in Operators :
          instrs' = Append(instrs, InstrRecord(op, NextOffset(instrs)))
    /\ UNCHANGED <<pc, i, block_end_map, end_resolve_stack, stack, entries, ret>>

\* collect_instructions: read_with_offset fails, `?` returns the error.
CollectFail ==
    /\ UNCHANGED <<runVars, extVars, hexVars, callVars>>
    /\ pc = "collect"
    /\ pc' = "done"
    /\ ret' = Err("MalformedInput", NextOffset(instrs))
    /\ UNCHANGED <<instrs, i, block_end_map, end_resolve_stack, stack, entries>>

\* collect_instructions returns at eof; compute_branch_table sets up pass 1.
CollectEof ==
    /\ UNCHANGED <<runVars, extVars, hexVars, callVars>>
    /\ pc = "collect"
    /\ pc' = "pass1"
    /\ i' = 1
    /\ block_end_map' = [k \in 1..Len(instrs) |-> None]
    /\ end_resolve_stack' = <<>>
    /\ entries' = <<>>
    /\ UNCHANGED <<instrs, stack, ret>>

\* Pass 1, one iteration of the loop; the loop's exit sets up pass 2.
Pass1Step ==
    /\ UNCHANGED <<runVars, extVars, hexVars, callVars>>
    /\ pc = "pass1"
    /\ IF i > Len(instrs)
       THEN /\ pc' = "pass2"
            /\ i' = 1
            /\ stack' = <<>>
            /\ UNCHANGED <<block_end_map, end_resolve_stack>>
       ELSE /\ i' = i + 1
            /\ UNCHANGED <<pc, stack>>
            /\ IF IsOpen(instrs[i].kind)
               THEN /\ end_resolve_stack' = Append(end_resolve_stack, i)
                    /\ UNCHANGED block_end_map
               ELSE IF instrs[i].kind = "End"
               THEN /\ end_resolve_stack' = EndResolve(end_resolve_stack, block_end_map, instrs[i]).stack
                    /\ block_end_map' = EndResolve(end_resolve_stack, block_end_map, instrs[i]).map
               ELSE UNCHANGED <<block_end_map, end_resolve_stack>>
    /\ UNCHANGED <<instrs, entries, ret>>

\* Finish that fails when a scope is still open at the end of the sequence.
Finish_RequireClosed(stk, table) ==
    IF stk = <<>> THEN Ok(table) ELSE Err("UnresolvedEnd", Last(stk).start_offset)

\* After the loop of pass 2: Ok(entries), whatever is left on the stack.
Finish(stk, table) == Ok(table)

\* Pass 2, one iteration of the loop; the loop's exit returns Ok(entries).
Pass2Step ==
    /\ UNCHANGED <<runVars, extVars, hexVars, callVars>>
    /\ pc = "pass2"
    /\ UNCHANGED <<instrs, block_end_map, end_resolve_stack>>
    /\ IF i > Len(instrs)
       THEN /\ pc' = "done"
            /\ ret' = Finish(stack, entries)
            /\ UNCHANGED <<i, stack, entries>>
       ELSE LET instr == instrs[i] IN
            IF IsOpen(instr.kind)
            THEN /\ stack' = Append(stack, BlockInfo(i, instr))
                 /\ i' = i + 1
                 /\ UNCHANGED <<pc, entries, ret>>
            ELSE IF instr.kind = "Else"
            THEN /\ stack' = ElseStack(stack, instr)
                 /\ entries' = entries \o ElseEntries(stack, instr)
                 /\ i' = i + 1
                 /\ UNCHANGED <<pc, ret>>
            ELSE IF instr.kind = "End"
            THEN /\ IF stack # <<>>
                    THEN /\ stack' = Front(stack)
                         /\ entries' = entries \o EndEntries(Last(stack), instr.offset)
                    ELSE UNCHANGED <<stack, entries>>
                 /\ i' = i + 1
                 /\ UNCHANGED <<pc, ret>>
            ELSE IF IsBranch(instr.kind)
            THEN LET target_idx == TargetIdx(Len(stack), instr.depth) IN
                 IF target_idx = None
                 THEN /\ pc' = "done"
                      /\ ret' = Propagate(DepthExceededErr(instr), entries)
                      /\ UNCHANGED <<i, stack, entries>>
                 ELSE LET target_info == stack[target_idx + 1]
                          target_pc == TargetPc(target_info, block_end_map)
                      IN IF target_pc = None
                         THEN /\ pc' = "done"
                              /\ ret' = Propagate(UnresolvedEndErr(instr, target_info), entries)
                              /\ UNCHANGED <<i, stack, entries>>
                         ELSE /\ entries' = Append(entries, BranchEntry(instr.offset, target_pc))
                              /\ i' = i + 1
                              /\ UNCHANGED <<pc, stack, ret>>
            ELSE /\ entries' = entries \o OtherEntries(instr)
                 /\ i' = i + 1
                 /\ UNCHANGED <<pc, stack, ret>>

Next == CollectInstr \/ CollectFail \/ CollectEof \/ Pass1Step \/ Pass2Step

Spec == Init /\ [][Next]_vars

\* ------------------------------------------------------------------------
\* Execution of a lowered body: the flat PC machine with its branch table,
\* in step with the nested program it was lowered from
\* ------------------------------------------------------------------------
\* The scopes open after the records of s: kind and whether an Else was seen.
RECURSIVE OpenScopes(_)
OpenScopes(s) ==
    IF s = <<>> THEN <<>>
    ELSE LET o == OpenScopes(Front(s))
             k == Last(s).kind
         IN IF OpensScope(k) THEN Append(o, [kind |-> k, has_else |-> FALSE])
            ELSE IF k = "End" /\ o # <<>> THEN Front(o)
            ELSE IF k = "Else" /\ o # <<>>
            THEN Append(Front(o), [Last(o) EXCEPT !.has_else = TRUE])
            ELSE o

\* op may follow s in a well-formed body of at most MaxRunInstrs operators:
\* the open blocks can still be closed and the return still be placed.
FitsAfter(s, op) ==
    LET o == OpenScopes(s)
        open == Len(o) + (IF OpensScope(op.kind) THEN 1 ELSE 0)
                       - (IF op.kind = "End" THEN 1 ELSE 0)
        last == IF open = 0 /\ op.kind = "Other" /\ op.width = 1 THEN 0 ELSE 1
    IN /\ op.kind = "End" => o # <<>>
       /\ op.kind = "Else" => (o # <<>> /\ Last(o).kind = "If" /\ ~Last(o).has_else)
       /\ Len(s) + 1 + open + last <= MaxRunInstrs

\* The function's final end, rewritten to return: the last record.
IsReturn(s, k) == k = Len(s)

\* Index of the record at offset a; 0 if a is no instruction boundary.
InstrAt(s, a) ==
    LET c == {k \in 1..Len(s) : s[k].offset = a} IN IF c = {} THEN 0 ELSE SetMin(c)

\* The targets the branch table holds for the source a.
FlatTargets(tbl, a) == {tbl[n].target_pc : n \in {m \in 1..Len(tbl) : tbl[m].source_pc = a}}

\* The flat machine jumps at an If whose condition is false, at an Else, at a
\* Br and at a taken BrIf.
FlatJumps(kind, cond) ==
    \/ kind = "If" /\ ~cond
    \/ kind = "Else"
    \/ kind = "Br"
    \/ kind = "BrIf" /\ cond

\* Where the nested program goes from instruction k inside the blocks lbl:
\* the next instruction and the blocks it is then inside of.
NestedNext(s, k, lbl, cond) ==
    LET kind == s[k].kind
        d == s[k].depth
        branch ==
            IF d >= Len(lbl)
            THEN [idx |-> Len(s), labels |-> <<>>]
            ELSE LET t == lbl[Len(lbl) - d] IN
                 IF s[t].kind = "Loop"
                 THEN [idx |-> t + 1, labels |-> SubSeq(lbl, 1, Len(lbl) - d)]
                 ELSE [idx |-> MatchEnd(s, t) + 1, labels |-> SubSeq(lbl, 1, Len(lbl) - d - 1)]
    IN IF kind \in {"Block", "Loop"} \/ (kind = "If" /\ cond)
       THEN [idx |-> k + 1, labels |-> Append(lbl, k)]
       ELSE IF kind = "If"
       THEN IF MatchElse(s, k) # 0
            THEN [idx |-> MatchElse(s, k) + 1, labels |-> Append(lbl, k)]
            ELSE [idx |-> MatchEnd(s, k) + 1, labels |-> lbl]
       ELSE IF kind = "Else"
       THEN [idx |-> MatchEnd(s, Last(lbl)) + 1, labels |-> Front(lbl)]
       ELSE IF kind = "End"
       THEN [idx |-> k + 1, labels |-> Front(lbl)]
       ELSE IF kind = "Br" \/ (kind = "BrIf" /\ cond)
       THEN branch
       ELSE [idx |-> k + 1, labels |-> lbl]

\* The scanner reads one more operator of a well-formed body.
CollectWellFormed ==
    /\ pc = "collect"
    /\ Len(instrs) < MaxRunInstrs
    /\ \E op \in Operators :
          /\ FitsAfter(instrs, op)
          /\ instrs' = Append(instrs, InstrRecord(op, NextOffset(instrs)))
    /\ UNCHANGED <<pc, i, block_end_map, end_resolve_stack, stack, entries, ret>>
    /\ UNCHANGED <<runVars, extVars, hexVars, callVars>>

\* The body is complete: every block is closed and the last operator is the
\* return that extract_function_body put in place of the final end.
CollectBody ==
    /\ instrs # <<>>
    /\ OpenScopes(instrs) = <<>>
    /\ Last(instrs).kind = "Other" /\ Last(instrs).width = 1
    /\ CollectEof

\* The lowered body is loaded: byte stream and branch table, PC 0.
RunStart ==
    /\ pc = "done" /\ ret.tag = "Ok" /\ run = "idle"
    /\ run' = "running"
    /\ fpc' = 0
    /\ nidx' = 1
    /\ labels' = <<>>
    /\ UNCHANGED <<lowerVars, extVars, hexVars, callVars>>

\* Both executions take one instruction, with the same condition outcome.
RunStep ==
    /\ run = "running"
    /\ InstrAt(instrs, fpc) = nidx
    /\ UNCHANGED <<lowerVars, extVars, hexVars, callVars>>
    /\ LET instr == instrs[nidx] IN
       \E cond \in (IF instr.kind \in {"If", "BrIf"} THEN BOOLEAN ELSE {TRUE}) :
          IF instr.kind = "Other" /\ IsReturn(instrs, nidx)
          THEN /\ run' = "halted"
               /\ UNCHANGED <<fpc, nidx, labels>>
          ELSE /\ nidx' = NestedNext(instrs, nidx, labels, cond).idx
               /\ labels' = NestedNext(instrs, nidx, labels, cond).labels
               /\ IF FlatJumps(instr.kind, cond)
                  THEN IF FlatTargets(ret.table, fpc) = {}
                       THEN /\ run' = "trapped"
                            /\ UNCHANGED fpc
                       ELSE /\ fpc' \in FlatTargets(ret.table, fpc)
                            /\ UNCHANGED run
                  ELSE /\ fpc' = fpc + instr.width
                       /\ UNCHANGED run

NextRun == CollectWellFormed \/ CollectBody \/ Pass1Step \/ Pass2Step \/ RunStart \/ RunStep

SpecRun == Init /\ [][NextRun]_vars

\* ------------------------------------------------------------------------
\* Actions of extract_function_body
\* ------------------------------------------------------------------------
\* The module's next payload is no function body (a header, another section).
AddSection ==
    /\ xpc = "build" /\ Len(wasm) < MaxPayloads
    /\ wasm' = Append(wasm, [type |-> "Section", body |-> <<>>])
    /\ UNCHANGED <<lowerVars, runVars, hexVars, callVars, xpc, p, xret>>

\* The module's next payload does not parse.
AddMalformed ==
    /\ xpc = "build" /\ Len(wasm) < MaxPayloads
    /\ wasm' = Append(wasm, [type |-> "Malformed", body |-> <<>>])
    /\ UNCHANGED <<lowerVars, runVars, hexVars, callVars, xpc, p, xret>>

\* The module's next payload is a function body.
AddCode ==
    /\ xpc = "build" /\ Len(wasm) < MaxPayloads
    /\ IF HasCode(wasm)
       THEN \E b \in LaterBodies : wasm' = Append(wasm, [type |-> "Code", body |-> b])
       ELSE wasm' = Append(wasm, [type |-> "Code", body |-> <<>>])
    /\ UNCHANGED <<lowerVars, runVars, hexVars, callVars, xpc, p, xret>>

\* One more byte of the first function body.
AddByte ==
    /\ xpc = "build" /\ wasm # <<>>
    /\ Last(wasm).type = "Code" /\ ~HasCode(Front(wasm))
    /\ Len(Last(wasm).body) < MaxBody
    /\ \E b \in ByteVals :
          wasm' = [wasm EXCEPT ![Len(wasm)].body = Append(@, b)]
    /\ UNCHANGED <<lowerVars, runVars, hexVars, callVars, xpc, p, xret>>

\* extract_function_body is called on the module.
ExtractStart ==
    /\ xpc = "build"
    /\ xpc' = "parse"
    /\ p' = 1
    /\ UNCHANGED <<lowerVars, runVars, hexVars, callVars, wasm, xret>>

\* One iteration of `for payload in parser.parse_all(wasm_bytes)`.
ExtractStep ==
    /\ xpc = "parse"
    /\ UNCHANGED <<lowerVars, runVars, hexVars, callVars, wasm>>
    /\ IF p > Len(wasm)
       THEN /\ xpc' = "done"
            /\ xret' = NoCodeErr
            /\ UNCHANGED p
       ELSE IF wasm[p].type = "Malformed"
       THEN /\ xpc' = "done"
            /\ xret' = ErrBytes("Parse")
            /\ UNCHANGED p
       ELSE IF wasm[p].type = "Code"
       THEN /\ xpc' = "done"
            /\ xret' = ExtractEntry(wasm[p].body)
            /\ UNCHANGED p
       ELSE /\ p' = p + 1
            /\ UNCHANGED <<xpc, xret>>

NextExtract ==
    AddSection \/ AddMalformed \/ AddCode \/ AddByte \/ ExtractStart \/ ExtractStep

SpecExtract == Init /\ [][NextExtract]_vars

\* ------------------------------------------------------------------------
\* write_prog_hex: the String out is a sequence of one-character strings.

\* Longest byte sequence written.
MaxHexBytes == 3

\* Bytes the sequences are drawn from: both digits below ten, a letter in
\* the low digit only, letters in both, the largest byte.
HexBytes == {0, 10, 171, 255}

UpperHex == <<"0", "1", "2", "3", "4", "5", "6", "7",
              "8", "9", "A", "B", "C", "D", "E", "F">>

\* format!("{:02X}", b)
Format02X(b) == <<UpperHex[(b \div 16) + 1], UpperHex[(b % 16) + 1]>>

\* The caller's byte sequence grows by one byte.
AddHexByte ==
    /\ hpc = "build"
    /\ Len(hbytes) < MaxHexBytes
    /\ \E b \in HexBytes : hbytes' = Append(hbytes, b)
    /\ UNCHANGED <<hpc, out, hi, file>>
    /\ UNCHANGED <<lowerVars, runVars, extVars, callVars>>

\* let mut out = String::new();
WriteStart ==
    /\ hpc = "build"
    /\ hpc' = "loop"
    /\ out' = <<>>
    /\ hi' = 0
    /\ UNCHANGED <<hbytes, file>>
    /\ UNCHANGED <<lowerVars, runVars, extVars, callVars>>

\* One iteration of `for (i, b) in bytes.iter().enumerate()`.
WriteStep ==
    /\ hpc = "loop"
    /\ hi < Len(hbytes)
    /\ out' = out \o Format02X(hbytes[hi + 1])
                  \o (IF hi + 1 < Len(hbytes) THEN <<"\n">> ELSE <<>>)
    /\ hi' = hi + 1
    /\ UNCHANGED <<hpc, hbytes, file>>
    /\ UNCHANGED <<lowerVars, runVars, extVars, callVars>>

\* After the loop: out.push('\n'); fs::write(path, &out).
WriteFinish ==
    /\ hpc = "loop"
    /\ hi >= Len(hbytes)
    /\ out' = Append(out, "\n")
    /\ file' = out'
    /\ hpc' = "done"
    /\ UNCHANGED <<hbytes, hi>>
    /\ UNCHANGED <<lowerVars, runVars, extVars, callVars>>

NextHex == AddHexByte \/ WriteStart \/ WriteStep \/ WriteFinish

SpecHex == Init /\ [][NextHex]_vars

\* ------------------------------------------------------------------------
\* Repeated invocations of compute_branch_table by one caller.  input is
\* what the scanner makes of the byte stream handed over: the records it
\* decodes and whether it then fails (bad) or reaches eof.

\* Longest stream of the first invocation, and the number of invocations.
MaxCallInstrs == 2
MaxCalls == 3

\* A stream lowered between two lowerings of another one: if, br 0, end.
ProbeInput ==
    [instrs |-> <<[kind |-> "If", depth |-> 0, width |-> 2, offset |-> 0],
                  [kind |-> "Br", depth |-> 0, width |-> 2, offset |-> 2],
                  [kind |-> "End", depth |-> 0, width |-> 1, offset |-> 4]>>,
     bad |-> FALSE]

\* FreshEntries that keeps what the previous invocation left behind.
FreshEntries_Reused(old) == old

\* let mut entries = Vec::new();
FreshEntries(old) == <<>>

\* The byte stream of the first invocation grows by one operator.
GrowInput ==
    /\ pc = "collect"
    /\ Len(input.instrs) < MaxCallInstrs
    /\ \E op \in Operators :
          input' = [input EXCEPT
                      !.instrs = Append(@, InstrRecord(op, NextOffset(input.instrs)))]
    /\ UNCHANGED hist
    /\ UNCHANGED <<lowerVars, runVars, extVars, hexVars>>

\* The first invocation: the stream is complete, or garbage follows it.
Invoke ==
    /\ pc = "collect"
    /\ pc' = "scan"
    /\ \E bad \in BOOLEAN : input' = [input EXCEPT !.bad = bad]
    /\ UNCHANGED <<instrs, i, block_end_map, end_resolve_stack, stack, entries, ret>>
    /\ UNCHANGED hist
    /\ UNCHANGED <<runVars, extVars, hexVars>>

\* collect_instructions over the whole stream, then the locals of
\* compute_branch_table are created.
Scan ==
    /\ pc = "scan"
    /\ instrs' = input.instrs
    /\ IF input.bad
       THEN /\ pc' = "done"
            /\ ret' = Err("MalformedInput", NextOffset(input.instrs))
            /\ UNCHANGED <<i, block_end_map, end_resolve_stack, entries>>
       ELSE /\ pc' = "pass1"
            /\ i' = 1
            /\ block_end_map' = [k \in 1..Len(input.instrs) |-> None]
            /\ end_resolve_stack' = <<>>
            /\ entries' = FreshEntries(entries)
            /\ ret' = NoRet
    /\ UNCHANGED stack
    /\ UNCHANGED <<hist, input>>
    /\ UNCHANGED <<runVars, extVars, hexVars>>

\* The caller keeps the result and calls again: on the same stream, on one
\* it lowered before, or on another one.
Reinvoke ==
    /\ pc = "done"
    /\ Len(hist) + 1 < MaxCalls
    /\ hist' = Append(hist, [input |-> input, ret |-> ret])
    /\ \E s \in {input, ProbeInput} \cup {hist[k].input : k \in 1..Len(hist)} :
          input' = s
    /\ pc' = "scan"
    /\ UNCHANGED <<instrs, i, block_end_map, end_resolve_stack, stack, entries, ret>>
    /\ UNCHANGED <<runVars, extVars, hexVars>>

NextTwice == GrowInput \/ Invoke \/ Scan \/ Pass1Step \/ Pass2Step \/ Reinvoke

SpecTwice == Init /\ [][NextTwice]_vars

\* Pass 2 is about to process instruction i.
AtInstr == pc = "pass2" /\ i <= Len(instrs)

AtBranch == AtInstr /\ IsBranch(instrs[i].kind)

\* The scope a branch of relative depth d targets on the live stack.
TargetScope(d) == stack[Len(stack) - d]

CountSource(tbl, src) == Cardinality({n \in 1..Len(tbl) : tbl[n].source_pc = src})

\* ------------------------------------------------------------------------
\* Claims
\* ------------------------------------------------------------------------

\* C1: whenever compute_branch_table succeeds on a well-formed body, the
\* flat PC machine driven by the branch table visits the same instructions
\* as the nested program, for every choice of condition outcomes: the two
\* stand at the same instruction after every step.
C1_FlatEqualsNested ==
    (run # "idle" /\ WellFormed(instrs))
    => /\ run # "trapped"
       /\ InstrAt(instrs, fpc) = nidx

\* C2: a Br/BrIf at offset p with depth d, processed with n > d live scopes,
\* appends exactly one entry (p, T): T is the target scope's start offset + 2
\* for a Loop, and the offset of its matching End + 1 for a Block or an If.
C2_BranchTarget ==
    [][ (AtBranch /\ Len(stack) > instrs[i].depth
         /\ (TargetScope(instrs[i].depth).kind # "Loop"
               => MatchEnd(instrs, TargetScope(instrs[i].depth).idx) # 0))
        => LET scope == TargetScope(instrs[i].depth)
               T == IF scope.kind = "Loop"
                    THEN scope.start_offset + 2
                    ELSE instrs[MatchEnd(instrs, scope.idx)].offset + 1
           IN entries' = Append(entries, [source_pc |-> instrs[i].offset, target_pc |-> T])
    ]_vars

C2_Witness ==
    /\ pc = "pass2" /\ i > 2
    /\ instrs[i - 1].kind = "BrIf" /\ instrs[i - 1].depth = 1
    /\ Len(stack) = 2 /\ stack[1].kind = "Loop" /\ stack[2].kind = "If"
    /\ instrs[1].width = 3
    /\ entries # <<>>
    /\ Last(entries) = [source_pc |-> instrs[i - 1].offset, target_pc |-> 2]

\* C3: an entry emitted by a Br/BrIf that targets a Loop is backward
\* (target_pc <= source_pc); one that targets a Block or an If is forward.
C3_Direction ==
    [][ (AtBranch /\ Len(stack) > instrs[i].depth /\ Len(entries') = Len(entries) + 1)
        => LET e == entries'[Len(entries')]
           IN IF TargetScope(instrs[i].depth).kind = "Loop"
              THEN e.target_pc <= e.source_pc
              ELSE e.target_pc > e.source_pc
    ]_vars

C3_Witness ==
    /\ pc = "done" /\ ret.tag = "Ok" /\ Len(ret.table) = 2
    /\ Len(instrs) = 4
    /\ instrs[1].kind = "Loop" /\ instrs[2].kind = "Block"
    /\ instrs[3].kind = "Br" /\ instrs[3].depth = 1
    /\ instrs[4].kind = "BrIf" /\ instrs[4].depth = 1
    /\ ret.table[1].target_pc <= ret.table[1].source_pc

\* C4: a Br/BrIf of depth d fails with DepthExceeded exactly when d >= the
\* number of live scopes; the depth is never clamped to an existing scope.
C4_DepthExceeded ==
    [][ AtBranch
        => /\ (ret'.tag = "Err" /\ ret'.kind = "DepthExceeded")
                <=> instrs[i].depth >= Len(stack)
           /\ instrs[i].depth >= Len(stack) => (entries' = entries /\ pc' = "done")
    ]_vars

C4_Witness ==
    /\ pc = "done" /\ ret.tag = "Err" /\ ret.kind = "DepthExceeded"
    /\ Len(stack) = 1 /\ instrs[i].depth = 1

\* C5: in well-formed input an If with an Else contributes exactly two
\* entries, (If.start, else + 1) when the Else is scanned and (else, end + 1)
\* when the matching End is scanned; a lone if/else/end yields exactly two
\* entries, the Else-sourced one with the strictly greater target.
C5_IfElse ==
    ((pc = "pass2" \/ (pc = "done" /\ ret.tag = "Ok")) /\ WellFormed(instrs))
    => /\ \A a \in 1..Len(instrs) :
            (instrs[a].kind = "If" /\ MatchElse(instrs, a) # 0)
            => LET b == MatchElse(instrs, a)
                   c == MatchEnd(instrs, a)
                   atElse == [source_pc |-> instrs[a].offset, target_pc |-> instrs[b].offset + 1]
                   atEnd == [source_pc |-> instrs[b].offset, target_pc |-> instrs[c].offset + 1]
               IN /\ CountSource(entries, instrs[a].offset) = IF i > b THEN 1 ELSE 0
                  /\ CountSource(entries, instrs[b].offset) = IF i > c THEN 1 ELSE 0
                  /\ \A n \in 1..Len(entries) :
                        /\ entries[n].source_pc = instrs[a].offset => entries[n] = atElse
                        /\ entries[n].source_pc = instrs[b].offset => entries[n] = atEnd
       /\ (/\ pc = "done"
           /\ Cardinality({k \in 1..Len(instrs) : instrs[k].kind = "If"}) = 1
           /\ Cardinality({k \in 1..Len(instrs) : instrs[k].kind = "Else"}) = 1
           /\ \A k \in 1..Len(instrs) : instrs[k].kind \in {"If", "Else", "End", "Other"})
          => /\ Len(ret.table) = 2
             /\ \A m, n \in 1..2 :
                   (/\ ret.table[m].source_pc = instrs[SetMin({k \in 1..Len(instrs) : instrs[k].kind = "If"})].offset
                    /\ ret.table[n].source_pc = instrs[SetMin({k \in 1..Len(instrs) : instrs[k].kind = "Else"})].offset)
                   => ret.table[n].target_pc > ret.table[m].target_pc

C5_Witness ==
    /\ pc = "done" /\ ret.tag = "Ok" /\ WellFormed(instrs)
    /\ Len(instrs) = 4
    /\ instrs[1].kind = "If" /\ instrs[2].kind = "Else"
    /\ instrs[3].kind = "Other" /\ instrs[4].kind = "End"
    /\ Len(ret.table) = 2

\* C6: an End that pops an If whose else_offset was never set appends exactly
\* one entry (If.start_offset, end_offset + 1); one that pops a Block or a
\* Loop appends no entry.
C6_EndPop ==
    [][ (AtInstr /\ instrs[i].kind = "End" /\ stack # <<>>)
        => /\ stack' = Front(stack)
           /\ (Last(stack).kind = "If" /\ Last(stack).else_offset = None)
                => entries' = Append(entries, [source_pc |-> Last(stack).start_offset,
                                               target_pc |-> instrs[i].offset + 1])
           /\ Last(stack).kind \in {"Block", "Loop"} => entries' = entries
    ]_vars

C6_Witness ==
    /\ pc = "pass2" /\ i = 4
    /\ instrs[1].kind = "Loop" /\ instrs[2].kind = "If" /\ instrs[3].kind = "End"
    /\ Len(entries) = 1 /\ Len(stack) = 1

\* C7: an opaque instruction changes neither the scope stack, the end-offset
\* map nor the branch table, so a sequence of opaque instructions only
\* yields an empty branch table.
C7_Opaque ==
    [][ /\ (pc \in {"pass1", "pass2"} /\ i <= Len(instrs) /\ instrs[i].kind = "Other")
           => UNCHANGED <<end_resolve_stack, stack, block_end_map, entries>>
        /\ (pc = "pass2" /\ pc' = "done"
            /\ \A k \in 1..Len(instrs) : instrs[k].kind = "Other")
           => ret' = Ok(<<>>)
    ]_vars

C7_Witness ==
    /\ pc = "done" /\ ret = Ok(<<>>) /\ Len(instrs) = 3
    /\ \A k \in 1..Len(instrs) : instrs[k].kind = "Other"

\* The operator bytes of the first function of the module w.
FirstBody(w) == w[SetMin({k \in 1..Len(w) : w[k].type = "Code"})].body

\* C8: extract_function_body returns the operator bytes of the function with
\* one change only: a last byte 0x0B becomes 0x0F; the length and every
\* other byte, earlier 0x0B bytes too, are unchanged, so the result never
\* ends with 0x0B.
C8_TerminalRewrite ==
    (xpc = "done" /\ xret.tag = "Ok")
    => LET all == FirstBody(wasm)
           n == Len(xret.bytes)
           ops == SubSeq(all, Len(all) - n + 1, Len(all))
       IN /\ n <= Len(all)
          /\ Len(all) - n = 1 + 2 * all[1]
          /\ \A j \in 1..(n - 1) : xret.bytes[j] = ops[j]
          /\ n > 0 => xret.bytes[n] = IF ops[n] = 11 THEN 15 ELSE ops[n]
          /\ n > 0 => xret.bytes[n] # 11

C8_Witness ==
    /\ xpc = "done" /\ xret.tag = "Ok"
    /\ FirstBody(wasm) = <<1, 11, 127, 11, 11>>
    /\ xret.bytes = <<11, 15>>

\* C9: when a Br/BrIf fails, compute_branch_table returns only the error:
\* no entry appended earlier is returned and no later instruction is
\* processed.
C9_NoPartialTable ==
    [][ /\ (AtBranch
            /\ \/ instrs[i].depth >= Len(stack)
               \/ /\ TargetScope(instrs[i].depth).kind # "Loop"
                  /\ MatchEnd(instrs, TargetScope(instrs[i].depth).idx) = 0)
           => (pc' = "done" /\ ret'.tag = "Err" /\ ret'.table = <<>> /\ i' = i)
        /\ pc # "done"
    ]_vars

C9_Witness ==
    /\ pc = "done" /\ ret.tag = "Err" /\ ret.kind = "UnresolvedEnd"
    /\ entries # <<>> /\ i < Len(instrs)

\* C10 as stated: DepthExceeded and UnresolvedEnd both report the offset of
\* the Br/BrIf being processed.
C10_OffsetOfBranch ==
    (pc = "done" /\ ret.tag = "Err" /\ ret.kind \in {"DepthExceeded", "UnresolvedEnd"})
    => ret.offset = instrs[i].offset

\* C10, amended: DepthExceeded reports the offset of the Br/BrIf being
\* processed; UnresolvedEnd reports the start offset of the Block or If the
\* branch targets.
C10_ReportedOffset ==
    (pc = "done" /\ ret.tag = "Err")
    => /\ ret.kind \in {"DepthExceeded", "UnresolvedEnd", "MalformedInput"}
       /\ ret.kind = "DepthExceeded" => ret.offset = instrs[i].offset
       /\ ret.kind = "UnresolvedEnd"
            => /\ ret.offset = TargetScope(instrs[i].depth).start_offset
               /\ ret.offset = instrs[TargetScope(instrs[i].depth).idx].offset
               /\ ret.offset < instrs[i].offset

C10_Witness ==
    /\ pc = "done" /\ ret.tag = "Err" /\ ret.kind = "UnresolvedEnd"
    /\ instrs[i].depth = 1 /\ Len(stack) = 2 /\ stack[1].kind = "If"

\* C11: in a table returned for well-formed input no two entries have the
\* same source_pc: a Br/BrIf offset and an Else offset are the source of at
\* most one entry, an If's start offset of exactly one (emitted at its Else
\* or at its End, never at both).
C11_UniqueSource ==
    ((pc = "pass2" \/ (pc = "done" /\ ret.tag = "Ok")) /\ WellFormed(instrs))
    => /\ \A m, n \in 1..Len(entries) :
             entries[m].source_pc = entries[n].source_pc => m = n
       /\ \A n \in 1..Len(entries) :
             \E k \in 1..Len(instrs) :
                /\ instrs[k].offset = entries[n].source_pc
                /\ instrs[k].kind \in {"If", "Else", "Br", "BrIf"}
       /\ pc = "done"
            => /\ ret.table = entries
               /\ \A k \in 1..Len(instrs) :
                     instrs[k].kind = "If" => CountSource(ret.table, instrs[k].offset) = 1

C11_Witness ==
    /\ pc = "done" /\ ret.tag = "Ok" /\ WellFormed(instrs)
    /\ Len(instrs) = 4
    /\ instrs[1].kind = "If" /\ instrs[2].kind = "BrIf"
    /\ instrs[3].kind = "Else" /\ instrs[4].kind = "End"
    /\ Len(ret.table) = 3

\* C12: an Else scanned in pass 2 while the innermost scope is a Block or a
\* Loop, or while no scope is open, is ignored: no error, no entry, and the
\* scope stack with every else_offset in it unchanged.
C12_StrayElse ==
    [][ (AtInstr /\ instrs[i].kind = "Else"
         /\ (stack = <<>> \/ Last(stack).kind \in {"Block", "Loop"}))
        => /\ stack' = stack
           /\ entries' = entries
           /\ ret' = ret
           /\ pc' = "pass2" /\ i' = i + 1
    ]_vars

C12_Witness ==
    /\ pc = "pass2" /\ i = 4
    /\ instrs[1].kind = "If" /\ instrs[2].kind = "Loop" /\ instrs[3].kind = "Else"
    /\ Len(stack) = 2 /\ entries = <<>>
    /\ \A k \in 1..2 : stack[k].else_offset = None

\* C13: an End scanned while no block is open is a no-op in both passes:
\* pass 1 records no mapping and leaves its index stack empty, pass 2 appends
\* no entry and leaves its scope stack empty, neither raises an error, and
\* the scan goes on to the next instruction from the state it was in.
C13_OrphanEnd ==
    [][ /\ (pc = "pass1" /\ i <= Len(instrs) /\ instrs[i].kind = "End"
            /\ end_resolve_stack = <<>>)
           => /\ block_end_map' = block_end_map
              /\ end_resolve_stack' = <<>>
              /\ pc' = "pass1" /\ i' = i + 1 /\ ret' = ret
        /\ (AtInstr /\ instrs[i].kind = "End" /\ stack = <<>>)
           => /\ entries' = entries
              /\ stack' = <<>>
              /\ pc' = "pass2" /\ i' = i + 1 /\ ret' = ret
    ]_vars

C13_Witness ==
    /\ pc = "done" /\ ret.tag = "Ok" /\ Len(instrs) = 4
    /\ instrs[1].kind = "End" /\ instrs[2].kind = "If"
    /\ instrs[3].kind = "End" /\ instrs[4].kind = "End"
    /\ block_end_map = <<None, instrs[3].offset, None, None>>
    /\ Len(ret.table) = 1

\* Every block/loop/if of s has a later End that closes it.
Balanced(s) == \A k \in 1..Len(s) : OpensScope(s[k].kind) => MatchEnd(s, k) # 0

\* C14: on a sequence whose opens and Ends are balanced pass 2 never fails
\* with UnresolvedEnd: whenever a Br/BrIf targets a Block or an If on the
\* live stack, the end-offset map holds an End offset for that scope's index.
C14_BalancedResolves ==
    Balanced(instrs)
    => /\ (pc = "done" /\ ret.tag = "Err") => ret.kind # "UnresolvedEnd"
       /\ (AtBranch /\ Len(stack) > instrs[i].depth
           /\ TargetScope(instrs[i].depth).kind \in {"Block", "If"})
          => /\ block_end_map[TargetScope(instrs[i].depth).idx] # None
             /\ block_end_map[TargetScope(instrs[i].depth).idx] > instrs[i].offset

C14_Witness ==
    /\ AtBranch /\ i = 3 /\ instrs[i].depth = 0 /\ Balanced(instrs)
    /\ Len(instrs) = 4
    /\ instrs[1].kind = "If" /\ instrs[2].kind = "Else"
    /\ instrs[4].kind = "End"
    /\ block_end_map[1] = instrs[4].offset

\* C17: after pass 1 on a balanced sequence the end-offset map is defined
\* for every block-open index and for no other index; its value is the
\* offset of the End that closes the block in the nesting structure;
\* distinct blocks map to distinct End offsets, each greater than the
\* block's own offset.
C17_EndOffsetMap ==
    (pc \in {"pass2", "done"} /\ ret.kind # "MalformedInput" /\ Balanced(instrs))
    => /\ Len(block_end_map) = Len(instrs)
       /\ \A k \in 1..Len(instrs) :
             /\ block_end_map[k] # None <=> OpensScope(instrs[k].kind)
             /\ OpensScope(instrs[k].kind)
                  => /\ block_end_map[k] = instrs[MatchEnd(instrs, k)].offset
                     /\ block_end_map[k] > instrs[k].offset
       /\ \A k, m \in 1..Len(instrs) :
             (OpensScope(instrs[k].kind) /\ OpensScope(instrs[m].kind) /\ k # m)
             => block_end_map[k] # block_end_map[m]

C17_Witness ==
    /\ pc = "pass2" /\ i = 1 /\ Len(instrs) = 4
    /\ instrs[1].kind = "Block" /\ instrs[2].kind = "If"
    /\ instrs[3].kind = "End" /\ instrs[4].kind = "End"
    /\ block_end_map = <<instrs[4].offset, instrs[3].offset, None, None>>

\* Index of the first function body of the module w; 0 if it has none.
FirstCode(w) ==
    LET c == {k \in 1..Len(w) : w[k].type = "Code"} IN IF c = {} THEN 0 ELSE SetMin(c)

\* The locals declarations at the head of the body decode: a count c, then
\* c pairs of a count and a value type.
LocalsDecode(all) ==
    /\ all # <<>>
    /\ 1 + 2 * all[1] <= Len(all)
    /\ \A j \in 1..all[1] : all[2 * j + 1] = 127

\* The operator bytes of a body, a final end opcode rewritten to return.
ExpectedOps(all) ==
    LET ops == SubSeq(all, 2 + 2 * all[1], Len(all)) IN
    [j \in 1..Len(ops) |-> IF j = Len(ops) /\ ops[j] = 11 THEN 15 ELSE ops[j]]

\* C15 as stated: the no-code-section error exactly when the module has no
\* function body, otherwise the body of the first function entry.
C15_NoCodeIffNoBody ==
    xpc = "done"
    => /\ (xret.tag = "Err" /\ xret.kind = "NoCodeSection") <=> FirstCode(wasm) = 0
       /\ FirstCode(wasm) # 0 => xret.tag = "Ok"

\* C15, amended: the no-code-section error exactly when every payload of the
\* module parses and none is a function body; when a payload before the
\* first function body does not parse, or the locals of the first function
\* body do not decode, the parser's error; otherwise the body of the first
\* function entry only, whatever the later payloads contain.
C15_FirstBodyOrError ==
    xpc = "done"
    => LET f == FirstCode(wasm)
           bad == \E k \in 1..(IF f = 0 THEN Len(wasm) ELSE f - 1) : wasm[k].type = "Malformed"
       IN /\ (xret.tag = "Err" /\ xret.kind = "NoCodeSection")
               <=> \A k \in 1..Len(wasm) : wasm[k].type = "Section"
          /\ (bad \/ (f # 0 /\ ~LocalsDecode(wasm[f].body)))
               => (xret.tag = "Err" /\ xret.kind = "Parse")
          /\ (f # 0 /\ ~bad /\ LocalsDecode(wasm[f].body))
               => xret = [tag |-> "Ok", kind |-> "", bytes |-> ExpectedOps(wasm[f].body)]

C15_Witness ==
    /\ xpc = "done" /\ Len(wasm) = 2
    /\ wasm[1].type = "Code" /\ wasm[1].body = <<0, 1, 11>>
    /\ wasm[2].type = "Code" /\ Len(wasm[2].body) = 5
    /\ xret.tag = "Ok" /\ xret.bytes = <<1, 15>>

\* The Br/BrIf at index k was lowered with the scopes in stack live.
BranchPassed(k) ==
    LET d == instrs[k].depth IN
    /\ d < Len(stack)
    /\ \/ TargetScope(d).kind = "Loop"
       \/ /\ block_end_map[TargetScope(d).idx] # None
          /\ MatchEnd(instrs, TargetScope(d).idx) # 0

\* C18: a Br/BrIf fails with UnresolvedEnd exactly when its depth is in
\* range, its target scope is a Block or an If and the end-offset map holds
\* no End for that scope's instruction index, the scope being never closed;
\* a Br/BrIf that targets a Loop succeeds with the loop's body offset
\* whether or not the loop is ever closed.
C18_UnresolvedEnd ==
    /\ (pc = "done" /\ ret.tag = "Err" /\ ret.kind = "UnresolvedEnd")
         => /\ IsBranch(instrs[i].kind)
            /\ instrs[i].depth < Len(stack)
            /\ TargetScope(instrs[i].depth).kind \in {"Block", "If"}
            /\ block_end_map[TargetScope(instrs[i].depth).idx] = None
            /\ MatchEnd(instrs, TargetScope(instrs[i].depth).idx) = 0
    /\ (pc = "done" /\ ret.tag = "Err" /\ ret.kind = "DepthExceeded")
         => instrs[i].depth >= Len(stack)
    /\ (pc = "pass2" /\ i > 1 /\ IsBranch(instrs[i - 1].kind))
         => /\ BranchPassed(i - 1)
            /\ entries # <<>>
            /\ Last(entries).source_pc = instrs[i - 1].offset
            /\ TargetScope(instrs[i - 1].depth).kind = "Loop"
                 => Last(entries).target_pc
                      = instrs[TargetScope(instrs[i - 1].depth).idx].offset + 2

C18_Witness ==
    /\ pc = "done" /\ ret.tag = "Err" /\ ret.kind = "UnresolvedEnd"
    /\ Len(instrs) = 4 /\ i = 4
    /\ instrs[1].kind = "Loop" /\ instrs[2].kind = "Block"
    /\ instrs[3].kind = "Br" /\ instrs[3].depth = 1
    /\ instrs[4].kind = "BrIf" /\ instrs[4].depth = 0
    /\ MatchEnd(instrs, 1) = 0
    /\ Len(entries) = 1 /\ entries[1].target_pc = instrs[1].offset + 2

\* The index of the instruction whose scan appends the entry e: the Br/BrIf
\* at e's source, or else the Else or End just before e's target.
Trigger(e) ==
    IF InstrAt(instrs, e.source_pc) # 0 /\ IsBranch(instrs[InstrAt(instrs, e.source_pc)].kind)
    THEN InstrAt(instrs, e.source_pc)
    ELSE InstrAt(instrs, e.target_pc - 1)

\* The entries of t are in the order of the instructions that trigger them.
DiscoveryOrder(t) ==
    \A j, k \in 1..Len(t) : j < k => (Trigger(t[j]) # 0 /\ Trigger(t[j]) < Trigger(t[k]))

\* C19: during pass 2 the branch table only grows by appending at its end,
\* what the scan of an instruction appends is triggered by that instruction
\* (an Else, an End, a Br or a BrIf), so the entries are in the order in
\* which their triggering instructions occur, and the table is returned in
\* that order, not sorted by source_pc.
C19_AppendOnly ==
    [][ pc = "pass2"
        => /\ Len(entries') >= Len(entries)
           /\ SubSeq(entries', 1, Len(entries)) = entries
           /\ \A k \in (Len(entries) + 1)..Len(entries') :
                  /\ i <= Len(instrs)
                  /\ Trigger(entries'[k]) = i
                  /\ instrs[i].kind \in {"Else", "End", "Br", "BrIf"}
           /\ DiscoveryOrder(entries')
           /\ (pc' = "done" /\ ret'.tag = "Ok") => ret'.table = entries
    ]_vars

C19_Witness ==
    /\ pc = "done" /\ ret.tag = "Ok" /\ Len(instrs) = 3
    /\ instrs[1].kind = "If" /\ instrs[2].kind = "Br" /\ instrs[3].kind = "End"
    /\ Len(ret.table) = 2
    /\ ret.table[1].source_pc = instrs[2].offset
    /\ ret.table[2].source_pc = instrs[1].offset
    /\ ret.table[1].source_pc > ret.table[2].source_pc

\* The lines of a text: the runs of characters that a newline ends, and the
\* characters after the last newline if there are any.
RECURSIVE LinesOf(_, _)
LinesOf(text, cur) ==
    IF text = <<>>
    THEN IF cur = <<>> THEN <<>> ELSE <<cur>>
    ELSE IF Head(text) = "\n"
         THEN <<cur>> \o LinesOf(Tail(text), <<>>)
         ELSE LinesOf(Tail(text), Append(cur, Head(text)))

\* The value of an uppercase hexadecimal digit; -1 for any other character.
HexVal(c) ==
    LET d == {v \in 0..15 : UpperHex[v + 1] = c} IN IF d = {} THEN -1 ELSE SetMin(d)

\* C20: the file has exactly one line per byte, in stream order, each line
\* the byte as two uppercase hexadecimal digits; it ends with a single
\* newline and has no blank line; the number of lines is the number of
\* bytes, also for the empty sequence.
C20_OneLinePerByte ==
    hpc = "done"
    => LET lines == LinesOf(file, <<>>) IN
       /\ Len(lines) = Len(hbytes)
       /\ \A k \in 1..Len(lines) :
             /\ Len(lines[k]) = 2
             /\ HexVal(lines[k][1]) >= 0 /\ HexVal(lines[k][2]) >= 0
             /\ HexVal(lines[k][1]) * 16 + HexVal(lines[k][2]) = hbytes[k]
       /\ file # <<>> => Last(file) = "\n"

\* All of C20 holds of the file written for a sequence of at least one byte.
C20_NonEmptyInput == (hpc = "done" /\ hbytes # <<>>) => C20_OneLinePerByte

\* The invocations that have returned: the input and the value returned.
Returned ==
    {hist[k] : k \in 1..Len(hist)}
    \cup (IF pc = "done" THEN {[input |-> input, ret |-> ret]} ELSE {})

\* C16: two invocations of compute_branch_table on the same byte stream, in
\* any order and with any other lowering in between, return the same
\* result: the same error, or tables equal entry by entry in the same order.
C16_Deterministic ==
    \A a, b \in Returned : a.input = b.input => a.ret = b.ret

C16_Witness ==
    /\ pc = "done" /\ Len(hist) = 2
    /\ hist[1].input = input /\ hist[2].input = ProbeInput /\ input # ProbeInput
    /\ hist[2].ret.tag = "Ok" /\ Len(hist[2].ret.table) = 2
    /\ ret.tag = "Ok" /\ Len(ret.table) = 1

\* The PC a is the offset of an instruction record of the sequence s.
OnBoundary(s, a) == InstrAt(s, a) # 0

\* C21: in the table returned for a well-formed body that ends with the
\* rewritten return, every target_pc is the offset of an instruction record
\* of the scanned sequence, whatever the width of the block-open
\* instructions: else + 1, end + 1 and a Loop's start + 2 alike.
C21_TargetOnBoundary ==
    (pc = "done" /\ ret.tag = "Ok" /\ WellFormed(instrs))
    => \A k \in 1..Len(ret.table) : OnBoundary(instrs, ret.table[k].target_pc)

\* All targets but those into a Loop whose block-open instruction is not two
\* bytes wide are on an instruction boundary.
C21_BoundaryButWideLoop ==
    (pc = "done" /\ ret.tag = "Ok" /\ WellFormed(instrs))
    => \A k \in 1..Len(ret.table) :
          \/ OnBoundary(instrs, ret.table[k].target_pc)
          \/ \E m \in 1..Len(instrs) :
                /\ instrs[m].kind = "Loop" /\ instrs[m].width # 2
                /\ ret.table[k].target_pc = instrs[m].offset + 2

\* The scopes opened before index b of s and not closed before it.
LiveAt(s, b) ==
    {k \in 1..(b - 1) : OpensScope(s[k].kind)
                        /\ (MatchEnd(s, k) = 0 \/ MatchEnd(s, k) > b)}

\* The scope a branch of depth d at index b targets; 0 if d is out of range.
ScopeOf(s, b, d) ==
    LET c == {k \in LiveAt(s, b) : Cardinality({m \in LiveAt(s, b) : m > k}) = d}
    IN IF c = {} THEN 0 ELSE SetMin(c)

\* Some Br/BrIf of s targets a Block or an If that is never closed.
TargetsUnclosed(s) ==
    \E b \in 1..Len(s) :
       /\ IsBranch(s[b].kind)
       /\ ScopeOf(s, b, s[b].depth) # 0
       /\ s[ScopeOf(s, b, s[b].depth)].kind \in {"Block", "If"}
       /\ MatchEnd(s, ScopeOf(s, b, s[b].depth)) = 0

\* Some Br/BrIf of s has a depth that is out of range.
TargetsNothing(s) ==
    \E b \in 1..Len(s) : IsBranch(s[b].kind) /\ ScopeOf(s, b, s[b].depth) = 0

\* Both passes ran over the whole scanned sequence, or pass 2 failed.
Lowered == pc = "done" /\ ret.kind # "MalformedInput"

\* An unclosed If without an Else is the source of no entry of table.
OpenIfSilent(s, table) ==
    \A k \in 1..Len(s) :
       (s[k].kind = "If" /\ MatchEnd(s, k) = 0 /\ MatchElse(s, k) = 0)
       => \A e \in 1..Len(table) : table[e].source_pc # s[k].offset

\* C22 as stated: a sequence that ends with scopes still open and has no
\* Br/BrIf targeting an unclosed Block or If returns successfully, and an
\* unclosed If without an Else is the source of no entry.
C22_OpenScopesSucceed ==
    (Lowered /\ ~Balanced(instrs) /\ ~TargetsUnclosed(instrs))
    => (ret.tag = "Ok" /\ OpenIfSilent(instrs, ret.table))

\* C22, amended: the scope stack is never checked at the end of the
\* sequence: a sequence, scopes still open or not, returns successfully
\* exactly when it has no Br/BrIf whose depth is out of range and none that
\* targets an unclosed Block or If, and an unclosed If without an Else is
\* the source of no entry.
C22_NoEndCheck ==
    Lowered
    => /\ ret.tag = "Ok" <=> (~TargetsNothing(instrs) /\ ~TargetsUnclosed(instrs))
       /\ OpenIfSilent(instrs, ret.table)

C22_Witness ==
    /\ pc = "done" /\ ret.tag = "Ok" /\ Len(instrs) = 4
    /\ instrs[1].kind = "If" /\ instrs[2].kind = "Loop"
    /\ instrs[3].kind = "Br" /\ instrs[3].depth = 0
    /\ instrs[4].kind = "Other"
    /\ ~Balanced(instrs) /\ Len(stack) = 2
    /\ Len(ret.table) = 1 /\ ret.table[1].source_pc = instrs[3].offset

====
